---- MODULE Spec2Model ----
(***************************************************************************)
(* A model of the snapx dependency-injection Container                     *)
(* (packages/core/src/Container.ts): the binding registry, the cache of    *)
(* resolved instances, the registration methods singleton / transient /    *)
(* context, and resolve with its helpers resolveContext and instantiate.   *)
(*                                                                         *)
(* Every public method call is one action. A call that throws is an action *)
(* too: its outcome is recorded in `last` and the state it leaves behind   *)
(* is whatever the method had written before the throw.                    *)
(***************************************************************************)
EXTENDS Integers, Sequences, FiniteSets, TLC

VARIABLES
    bindings,   \* Container.bindings : symbolic key -> binding
    instances,  \* Container.instances: the Map of cached instances, in insertion order
    nextId,     \* identity of the next object a `new` expression allocates
    nops,       \* number of public method calls made so far
    last,       \* the most recent call and its outcome
    prev,       \* the call before it, when both are resolves of the same key and context
    built,      \* history: per cache key, how often a fresh construction was written to the cache
    app,        \* the App around the container: its bootstrap in progress
    marker,     \* classes, their design:paramtypes metadata and __dependencies
    callers     \* resolve calls in progress, when resolve is taken in two steps

vars ==
    <<bindings, instances, nextId, nops, last, prev, built, app, marker, callers>>

----------------------------------------------------------------------------
(* Bounds of the model.                                                    *)

\* number of public method calls in a run
MaxOps == 4

\* depth of nested resolve/instantiate calls the call stack admits
MaxStack == 4

----------------------------------------------------------------------------
(* The universe the calls draw their arguments from.                       *)

\* symbolic keys; "a:b" is also the composite cache key of ("a", "b")
StrKeys == {"a", "a:b"}

\* context keys, the empty string included
ContextKeys == {"", "b", "c"}

\* the optional contextKey argument: <<>> is "not supplied" (undefined)
NoCtx == <<>>
CtxArgs == {NoCtx} \cup {<<c>> : c \in ContextKeys}

\* injectable classes and their capability records (__dependencies)
Types == {"A", "B"}

\* resolvers handed to singleton / transient / context:
\*   fNewA   the factory () => new ServiceA()
\*   vObj    a pre-built object
Resolvers == {"fNewA", "vObj"}

\* resolvers of the automatic-construction scenarios:
\*   fThrow     a factory that throws
\*   fResolveB  the factory () => container.resolve(ServiceB)
AutoResolvers == {"fNewA", "fThrow", "fResolveB"}

\* typeof resolver === 'function'
IsFunction(r) == r \in {"fNewA", "fThrow", "fResolveB"}

----------------------------------------------------------------------------
(* Values.                                                                 *)

Undefined == [type |-> "undefined", id |-> 0]
PrebuiltObject == [type |-> "Object", id |-> 0]
NewObject(T, id) == [type |-> T, id |-> id]

\* `value instanceof T` for a class T
InstanceOf(value, T) == value.type = T

\* the markers isPrimitive recognises in a capability record
PrimitiveMarkers == {"String", "Number", "Boolean", "Symbol", "BigInt", "undefined"}
isPrimitive(dep) == dep \in PrimitiveMarkers

\* classes of the automatic-construction scenarios:
\*   F [A], E [B, F]   a diamond over A
\*   D [A, A]          a repeated parameter
\*   X [Y], Y [X]      a cycle;  S [S] a class that depends on itself
\*   Z                 a class whose constructor throws
\*   P [String, A]     a marker in the first position
\*   Q(m) [A, m]       marker m in the second position
Q(m) == "Q" \o m
MarkedTypes == {Q(m) : m \in PrimitiveMarkers}
MarkerOf(T) == CHOOSE m \in PrimitiveMarkers : T = Q(m)
AcyclicTypes == {"A", "B", "F", "E", "D"}
CyclicTypes == {"X", "Y", "S"}
ThrowingTypes == {"Z"}
AutoTypes ==
    AcyclicTypes \cup CyclicTypes \cup ThrowingTypes \cup {"P"} \cup MarkedTypes

\* target.__dependencies || []
Dependencies(T) ==
    CASE T \in {"B", "F"} -> <<"A">>
      [] T = "E" -> <<"B", "F">>
      [] T = "D" -> <<"A", "A">>
      [] T = "X" -> <<"Y">>
      [] T = "Y" -> <<"X">>
      [] T = "S" -> <<"S">>
      [] T = "P" -> <<"String", "A">>
      [] T \in MarkedTypes -> <<"A", MarkerOf(T)>>
      [] OTHER -> <<>>

----------------------------------------------------------------------------
(* Map keys of `instances`: a string or a class, never equal to each other *)

StrKey(s)  == [kind |-> "str", name |-> s]
TypeKey(T) == [kind |-> "type", name |-> T]

\* `${key}:${contextKey}`
CompositeKey(key, contextKey) == key \o ":" \o contextKey

(* Map operations on a sequence of [key, value] entries.                   *)
MapHas(m, k) == \E i \in 1..Len(m) : m[i].key = k
MapGet(m, k) ==
    IF MapHas(m, k)
    THEN m[CHOOSE i \in 1..Len(m) : m[i].key = k].value
    ELSE Undefined
\* a set that leaves an existing entry as it is
MapSet_KeepsFirst(m, k, v) ==
    IF MapHas(m, k) THEN m ELSE Append(m, [key |-> k, value |-> v])

MapSet(m, k, v) ==
    IF MapHas(m, k)
    THEN [i \in 1..Len(m) |-> IF m[i].key = k THEN [key |-> k, value |-> v] ELSE m[i]]
    ELSE Append(m, [key |-> k, value |-> v])

----------------------------------------------------------------------------
(* Bindings.                                                               *)

Unbound == [kind |-> "none"]
Plain(resolver, singleton) ==
    [kind |-> "plain", resolver |-> resolver, singleton |-> singleton]
NoEntry == [present |-> FALSE, resolver |-> "none", singleton |-> FALSE]
Entry(resolver, singleton) ==
    [present |-> TRUE, resolver |-> resolver, singleton |-> singleton]
EmptyGroup == [kind |-> "group", entries |-> [c \in ContextKeys |-> NoEntry]]

IsPlain(b) == b.kind = "plain"
IsGroup(b) == b.kind = "group"

----------------------------------------------------------------------------
(* Errors.                                                                 *)

\* an Error: its kind and what its message names (key, context or
\* dependency type, parameter index)
NoError == [kind |-> "none", key |-> "", ctx |-> "", index |-> 0]
Err(kind, key, ctx, index) == [kind |-> kind, key |-> key, ctx |-> ctx, index |-> index]

----------------------------------------------------------------------------
(* The part of the container a resolve call reads and writes, threaded     *)
(* through the nested calls: the instance cache, the allocator, the        *)
(* construction history and the log of resolver / constructor calls.       *)

CacheKeys ==
    {StrKey(k) : k \in StrKeys}
        \cup {StrKey(CompositeKey(k, c)) : k \in StrKeys, c \in ContextKeys}
        \cup {TypeKey(T) : T \in Types}

Call(fn, args) == [fn |-> fn, args |-> args]

Returned(c, value) == [c |-> c, ok |-> TRUE, value |-> value, err |-> NoError]
Thrown(c, err)     == [c |-> c, ok |-> FALSE, value |-> Undefined, err |-> err]

\* this.instances.set(key, instance) with a freshly produced instance
CacheSet(c, k, value) ==
    [c EXCEPT !.instances = MapSet(@, k, value),
              !.built = [@ EXCEPT ![k] = @ + 1]]

\* some cached instance is an instance of dep
HasInstanceOf(m, dep) == \E i \in 1..Len(m) : InstanceOf(m[i].value, dep)

\* the last cached instance, in Map iteration order, that is an instance of dep
LastInstanceOf(m, dep) ==
    LET i == CHOOSE j \in 1..Len(m) :
                 /\ InstanceOf(m[j].value, dep)
                 /\ \A h \in (j + 1)..Len(m) : ~InstanceOf(m[h].value, dep)
    IN  m[i].value

\* the first cached instance, in Map iteration order, that is an instance of dep
FirstInstanceOf(m, dep) ==
    LET i == CHOOSE j \in 1..Len(m) :
                 /\ InstanceOf(m[j].value, dep)
                 /\ \A h \in 1..(j - 1) : ~InstanceOf(m[h].value, dep)
    IN  m[i].value

RECURSIVE resolveType(_, _, _)
RECURSIVE instantiate(_, _, _)
RECURSIVE resolveDeps(_, _, _, _, _)

\* resolve(key) for a class key that never looks in the cache
resolveType_NoCacheRead(c, T, stack) ==
    IF stack = 0
    THEN Thrown(c, Err("RangeError", T, "", 0))
    ELSE LET r == instantiate(c, T, stack)
         IN  IF ~r.ok THEN r
             ELSE Returned(CacheSet(r.c, TypeKey(T), r.value), r.value)

\* resolve(key) for a class key that also accepts what is cached under the
\* class's name as a symbolic key
resolveType_ByName(c, T, stack) ==
    IF stack = 0
    THEN Thrown(c, Err("RangeError", T, "", 0))
    ELSE IF MapHas(c.instances, TypeKey(T))
    THEN Returned(c, MapGet(c.instances, TypeKey(T)))
    ELSE IF MapHas(c.instances, StrKey(T))
    THEN Returned(c, MapGet(c.instances, StrKey(T)))
    ELSE LET r == instantiate(c, T, stack)
         IN  IF ~r.ok THEN r
             ELSE Returned(CacheSet(r.c, TypeKey(T), r.value), r.value)

\* resolve(key) for a class key that never caches what it constructs
resolveType_NoCacheWrite(c, T, stack) ==
    IF stack = 0
    THEN Thrown(c, Err("RangeError", T, "", 0))
    ELSE IF MapHas(c.instances, TypeKey(T))
    THEN Returned(c, MapGet(c.instances, TypeKey(T)))
    ELSE instantiate(c, T, stack)

\* resolve(key) for a class key that, when construction fails, puts the
\* container back as it found it
resolveType_RollsBack(c, T, stack) ==
    IF stack = 0
    THEN Thrown(c, Err("RangeError", T, "", 0))
    ELSE IF MapHas(c.instances, TypeKey(T))
    THEN Returned(c, MapGet(c.instances, TypeKey(T)))
    ELSE LET r == instantiate(c, T, stack)
         IN  IF ~r.ok THEN Thrown(c, r.err)
             ELSE Returned(CacheSet(r.c, TypeKey(T), r.value), r.value)

\* resolve(key) for a class key: cache lookup under the class, else
\* instantiate and cache. `stack` is the call depth still available.
resolveType(c, T, stack) ==
    IF stack = 0
    THEN Thrown(c, Err("RangeError", T, "", 0))
    ELSE IF MapHas(c.instances, TypeKey(T))
    THEN Returned(c, MapGet(c.instances, TypeKey(T)))
    ELSE LET r == instantiate(c, T, stack)
         IN  IF ~r.ok THEN r
             ELSE Returned(CacheSet(r.c, TypeKey(T), r.value), r.value)

\* dependencies.map(...) that takes the first cached instance, of whatever
\* type
resolveDeps_AnyCached(c, T, index, acc, stack) ==
    LET deps == Dependencies(T)
    IN  IF index > Len(deps)
        THEN Returned(c, acc)
        ELSE LET dep == deps[index]
             IN  IF isPrimitive(dep)
                 THEN Thrown(c, Err("Unresolvable", T, dep, index - 1))
                 ELSE IF c.instances # <<>>
                 THEN resolveDeps(c, T, index + 1,
                                  Append(acc, c.instances[1].value), stack)
                 ELSE LET r == resolveType(c, dep, stack - 1)
                      IN  IF ~r.ok THEN r
                          ELSE resolveDeps(r.c, T, index + 1, Append(acc, r.value), stack)

\* dependencies.map(...) that never looks for a cached instance of the
\* dependency type
resolveDeps_NoScan(c, T, index, acc, stack) ==
    LET deps == Dependencies(T)
    IN  IF index > Len(deps)
        THEN Returned(c, acc)
        ELSE LET dep == deps[index]
             IN  IF isPrimitive(dep)
                 THEN Thrown(c, Err("Unresolvable", T, dep, index - 1))
                 ELSE LET r == resolveType(c, dep, stack - 1)
                      IN  IF ~r.ok THEN r
                          ELSE resolveDeps(r.c, T, index + 1, Append(acc, r.value), stack)

\* dependencies.map(...): parameter `index` (1-based here) onwards, `acc`
\* the instances resolved for the parameters before it
resolveDeps(c, T, index, acc, stack) ==
    LET deps == Dependencies(T)
    IN  IF index > Len(deps)
        THEN Returned(c, acc)
        ELSE LET dep == deps[index]
             IN  IF isPrimitive(dep)
                 THEN IF dep = "undefined"
                      THEN Thrown(c, Err("TypeError", T, dep, index - 1))
                      ELSE Thrown(c, Err("Unresolvable", T, dep, index - 1))
                 ELSE IF HasInstanceOf(c.instances, dep)
                 THEN resolveDeps(c, T, index + 1,
                                  Append(acc, FirstInstanceOf(c.instances, dep)), stack)
                 ELSE LET r == resolveType(c, dep, stack - 1)
                      IN  IF ~r.ok THEN r
                          ELSE resolveDeps(r.c, T, index + 1, Append(acc, r.value), stack)

\* new target(...resolvedDeps)
instantiate(c, T, stack) ==
    LET d == resolveDeps(c, T, 1, <<>>, stack)
    IN  IF ~d.ok THEN d
        ELSE IF T \in ThrowingTypes
        THEN Thrown([d.c EXCEPT !.calls = Append(@, Call(T, d.value))],
                    Err("ConstructorError", T, "", 0))
        ELSE Returned([d.c EXCEPT !.nextId = @ + 1,
                                  !.calls = Append(@, Call(T, d.value))],
                      NewObject(T, d.c.nextId))

\* an invocation that calls the resolver whatever it is
invoke_AlwaysCalls(c, resolver) ==
    IF ~IsFunction(resolver)
    THEN Thrown(c, Err("TypeError", "", "", 0))
    ELSE IF resolver = "fThrow"
    THEN Thrown([c EXCEPT !.calls = Append(@, Call(resolver, <<>>))],
                Err("ResolverError", "", "", 0))
    ELSE IF resolver = "fResolveB"
    THEN resolveType([c EXCEPT !.calls = Append(@, Call(resolver, <<>>))],
                     "B", MaxStack - 1)
    ELSE Returned([c EXCEPT !.nextId = @ + 1,
                            !.calls = Append(@, Call(resolver, <<>>))],
                  NewObject("A", c.nextId))

\* an invocation that swallows what the resolver throws
invoke_SwallowsThrow(c, resolver) ==
    IF ~IsFunction(resolver)
    THEN Returned(c, IF resolver = "vObj" THEN PrebuiltObject ELSE Undefined)
    ELSE IF resolver = "fThrow"
    THEN Returned([c EXCEPT !.calls = Append(@, Call(resolver, <<>>))], Undefined)
    ELSE IF resolver = "fResolveB"
    THEN resolveType([c EXCEPT !.calls = Append(@, Call(resolver, <<>>))],
                     "B", MaxStack - 1)
    ELSE Returned([c EXCEPT !.nextId = @ + 1,
                            !.calls = Append(@, Call(resolver, <<>>))],
                  NewObject("A", c.nextId))

\* typeof resolver === 'function' ? resolver() : resolver
\* (`resolver` is "undefined" when read off a value that has no such field)
invoke(c, resolver) ==
    IF ~IsFunction(resolver)
    THEN Returned(c, IF resolver = "vObj" THEN PrebuiltObject ELSE Undefined)
    ELSE IF resolver = "fThrow"
    THEN Thrown([c EXCEPT !.calls = Append(@, Call(resolver, <<>>))],
                Err("ResolverError", "", "", 0))
    ELSE IF resolver = "fResolveB"
    THEN resolveType([c EXCEPT !.calls = Append(@, Call(resolver, <<>>))],
                     "B", MaxStack - 1)
    ELSE Returned([c EXCEPT !.nextId = @ + 1,
                            !.calls = Append(@, Call(resolver, <<>>))],
                  NewObject("A", c.nextId))

\* resolveContext that never looks in the cache
resolveContext_NoCacheRead(c, key, contextKey, binding) ==
    LET compositeKey == StrKey(CompositeKey(key, contextKey))
        context == binding.entries[contextKey]
    IN  IF ~context.present
        THEN Thrown(c, Err("ContextBindingNotFound", key, contextKey, 0))
        ELSE LET r == invoke(c, context.resolver)
             IN  IF ~r.ok THEN r
                 ELSE IF context.singleton
                 THEN Returned(CacheSet(r.c, compositeKey, r.value), r.value)
                 ELSE r

\* resolveContext(key, contextKey, binding)
resolveContext(c, key, contextKey, binding) ==
    LET compositeKey == StrKey(CompositeKey(key, contextKey))
        context == binding.entries[contextKey]
    IN  IF MapHas(c.instances, compositeKey)
        THEN Returned(c, MapGet(c.instances, compositeKey))
        ELSE IF ~context.present
        THEN Thrown(c, Err("ContextBindingNotFound", key, contextKey, 0))
        ELSE LET r == invoke(c, context.resolver)
             IN  IF ~r.ok THEN r
                 ELSE IF context.singleton
                 THEN Returned(CacheSet(r.c, compositeKey, r.value), r.value)
                 ELSE r

\* a contextKey argument that is truthy: supplied and not the empty string
Truthy(ctxArg) == ctxArg # NoCtx /\ ctxArg[1] # ""

\* binding.resolver / binding.singleton of whatever bindings.get(key) returned
ResolverOf(binding) == IF IsPlain(binding) THEN binding.resolver ELSE "undefined"
SingletonOf(binding) == IF IsPlain(binding) THEN binding.singleton ELSE FALSE

\* resolveKey with the write to the cache left out
resolveKey_NoCacheWrite(c, b, key, ctxArg) ==
    LET binding == b[key]
    IN  IF binding = Unbound
        THEN Thrown(c, Err("BindingNotFound", key, "", 0))
        ELSE IF Truthy(ctxArg) /\ IsGroup(binding)
        THEN resolveContext(c, key, ctxArg[1], binding)
        ELSE IF MapHas(c.instances, StrKey(key))
        THEN Returned(c, MapGet(c.instances, StrKey(key)))
        ELSE invoke(c, ResolverOf(binding))

\* resolveKey with the cache lookup left out
resolveKey_NoCacheRead(c, b, key, ctxArg) ==
    LET binding == b[key]
    IN  IF binding = Unbound
        THEN Thrown(c, Err("BindingNotFound", key, "", 0))
        ELSE IF Truthy(ctxArg) /\ IsGroup(binding)
        THEN resolveContext(c, key, ctxArg[1], binding)
        ELSE LET r == invoke(c, ResolverOf(binding))
             IN  IF ~r.ok THEN r
                 ELSE IF SingletonOf(binding)
                 THEN Returned(CacheSet(r.c, StrKey(key), r.value), r.value)
                 ELSE r

\* resolveKey with the cache lookup made before the binding lookup
resolveKey_CacheFirst(c, b, key, ctxArg) ==
    LET binding == b[key]
    IN  IF MapHas(c.instances, StrKey(key))
        THEN Returned(c, MapGet(c.instances, StrKey(key)))
        ELSE IF binding = Unbound
        THEN Thrown(c, Err("BindingNotFound", key, "", 0))
        ELSE IF Truthy(ctxArg) /\ IsGroup(binding)
        THEN resolveContext(c, key, ctxArg[1], binding)
        ELSE LET r == invoke(c, ResolverOf(binding))
             IN  IF ~r.ok THEN r
                 ELSE IF SingletonOf(binding)
                 THEN Returned(CacheSet(r.c, StrKey(key), r.value), r.value)
                 ELSE r

\* resolveKey that also serves what the cache holds under the class named
\* like the key
resolveKey_SharesTypeCache(c, b, key, ctxArg) ==
    LET binding == b[key]
    IN  IF binding = Unbound
        THEN Thrown(c, Err("BindingNotFound", key, "", 0))
        ELSE IF Truthy(ctxArg) /\ IsGroup(binding)
        THEN resolveContext(c, key, ctxArg[1], binding)
        ELSE IF MapHas(c.instances, StrKey(key))
        THEN Returned(c, MapGet(c.instances, StrKey(key)))
        ELSE IF MapHas(c.instances, TypeKey(key))
        THEN Returned(c, MapGet(c.instances, TypeKey(key)))
        ELSE LET r == invoke(c, ResolverOf(binding))
             IN  IF ~r.ok THEN r
                 ELSE IF SingletonOf(binding)
                 THEN Returned(CacheSet(r.c, StrKey(key), r.value), r.value)
                 ELSE r

\* resolve(key, contextKey) for a symbolic key
resolveKey(c, b, key, ctxArg) ==
    LET binding == b[key]
    IN  IF binding = Unbound
        THEN Thrown(c, Err("BindingNotFound", key, "", 0))
        ELSE IF Truthy(ctxArg) /\ IsGroup(binding)
        THEN resolveContext(c, key, ctxArg[1], binding)
        ELSE IF MapHas(c.instances, StrKey(key))
        THEN Returned(c, MapGet(c.instances, StrKey(key)))
        ELSE LET r == invoke(c, ResolverOf(binding))
             IN  IF ~r.ok THEN r
                 ELSE IF SingletonOf(binding)
                 THEN Returned(CacheSet(r.c, StrKey(key), r.value), r.value)
                 ELSE r

\* contextBind that replaces whatever the key holds by a fresh group
contextBind_Overwrite(b, key, contextKey, resolver, singleton) ==
    LET b1 == IF ~IsGroup(b[key]) THEN [b EXCEPT ![key] = EmptyGroup] ELSE b
    IN  [bindings |-> [b1 EXCEPT ![key].entries[contextKey] = Entry(resolver, singleton)],
         err |-> NoError]

\* context(key, contextKey, resolver, singleton): the registry afterwards and
\* the error thrown, if any
contextBind(b, key, contextKey, resolver, singleton) ==
    LET b1 == IF b[key] = Unbound THEN [b EXCEPT ![key] = EmptyGroup] ELSE b
        contextMap == b1[key]
    IN  IF ~IsGroup(contextMap)
        THEN [bindings |-> b1, err |-> Err("NotContextual", key, "", 0)]
        ELSE [bindings |-> [b1 EXCEPT ![key].entries[contextKey] = Entry(resolver, singleton)],
              err |-> NoError]

\* singleton(key, resolver) / transient(key, resolver)
singletonBind(b, key, resolver) == [b EXCEPT ![key] = Plain(resolver, TRUE)]
transientBind(b, key, resolver) == [b EXCEPT ![key] = Plain(resolver, FALSE)]

\* has that reports plain bindings only
has_PlainOnly(b, key) == IsPlain(b[key])

\* has(key)
has(b, key) == b[key] # Unbound

----------------------------------------------------------------------------
(* The record of a call: what was called with which key and context        *)
(* argument, whether it returned or threw, the value returned and the      *)
(* resolvers and constructors it ran.                                      *)

NoCall ==
    [op |-> "none", key |-> StrKey(""), ctx |-> NoCtx, ok |-> TRUE,
     err |-> NoError, value |-> Undefined, calls |-> <<>>]
Registered(op, key, ctxArg, err) ==
    [op |-> op, key |-> StrKey(key), ctx |-> ctxArg, ok |-> (err = NoError),
     err |-> err, value |-> Undefined, calls |-> <<>>]
Resolved(key, ctxArg, r) ==
    [op |-> "resolve", key |-> key, ctx |-> ctxArg, ok |-> r.ok,
     err |-> r.err, value |-> r.value, calls |-> r.c.calls]

\* the container as a resolve call finds it
Working == [instances |-> instances, nextId |-> nextId, built |-> built, calls |-> <<>>]

\* a container used without an App
NoApp == [pc |-> "none"]

\* a container whose classes are taken as declared and marked
NoMarker == [n |-> 0]

\* a container whose resolve calls run one at a time, each to its end
NoCallers == <<>>

Init ==
    /\ bindings = [k \in StrKeys |-> Unbound]
    /\ instances = <<>>
    /\ nextId = 1
    /\ nops = 0
    /\ last = NoCall
    /\ prev = NoCall
    /\ built = [k \in CacheKeys |-> 0]
    /\ app = NoApp
    /\ marker = NoMarker
    /\ callers = NoCallers

\* every call counts
Step ==
    /\ nops < MaxOps
    /\ nops' = nops + 1
    /\ UNCHANGED <<app, marker, callers>>

\* a resolve that immediately follows a resolve of the same key and context
\* keeps that call as `prev`
Repeats(key, ctxArg) == last.op = "resolve" /\ last.key = key /\ last.ctx = ctxArg

\* a singleton(key, resolver) that drops what the cache holds under the key
Singleton_EvictsCache(key, resolver) ==
    /\ Step
    /\ bindings' = singletonBind(bindings, key, resolver)
    /\ instances' = SelectSeq(instances, LAMBDA e : e.key # StrKey(key))
    /\ last' = Registered("singleton", key, NoCtx, NoError)
    /\ prev' = NoCall
    /\ UNCHANGED <<nextId, built>>

\* container.singleton(key, resolver)
Singleton(key, resolver) ==
    /\ Step
    /\ bindings' = singletonBind(bindings, key, resolver)
    /\ last' = Registered("singleton", key, NoCtx, NoError)
    /\ prev' = NoCall
    /\ UNCHANGED <<instances, nextId, built>>

\* container.transient(key, resolver)
Transient(key, resolver) ==
    /\ Step
    /\ bindings' = transientBind(bindings, key, resolver)
    /\ last' = Registered("transient", key, NoCtx, NoError)
    /\ prev' = NoCall
    /\ UNCHANGED <<instances, nextId, built>>

\* container.context(key, contextKey, resolver, singleton)
Context(key, contextKey, resolver, singleton) ==
    LET r == contextBind(bindings, key, contextKey, resolver, singleton)
    IN  /\ Step
        /\ bindings' = r.bindings
        /\ last' = Registered("context", key, NoCtx, r.err)
        /\ prev' = NoCall
        /\ UNCHANGED <<instances, nextId, built>>

\* container.resolve(key, contextKey) with a symbolic key
Resolve(key, ctxArg) ==
    LET r == resolveKey(Working, bindings, key, ctxArg)
    IN  /\ Step
        /\ instances' = r.c.instances
        /\ nextId' = r.c.nextId
        /\ built' = r.c.built
        /\ last' = Resolved(StrKey(key), ctxArg, r)
        /\ prev' = IF Repeats(StrKey(key), ctxArg) THEN last ELSE NoCall
        /\ UNCHANGED bindings

\* container.resolve(Class, contextKey) with a class key
ResolveClass(T, ctxArg) ==
    LET r == resolveType(Working, T, MaxStack)
    IN  /\ Step
        /\ instances' = r.c.instances
        /\ nextId' = r.c.nextId
        /\ built' = r.c.built
        /\ last' = Resolved(TypeKey(T), ctxArg, r)
        /\ prev' = IF Repeats(TypeKey(T), ctxArg) THEN last ELSE NoCall
        /\ UNCHANGED bindings

Next ==
    \/ \E key \in StrKeys, resolver \in Resolvers : Singleton(key, resolver)
    \/ \E key \in StrKeys, resolver \in Resolvers : Transient(key, resolver)
    \/ \E key \in StrKeys, contextKey \in ContextKeys, resolver \in Resolvers,
          singleton \in BOOLEAN : Context(key, contextKey, resolver, singleton)
    \/ \E key \in StrKeys, ctxArg \in CtxArgs : Resolve(key, ctxArg)
    \/ \E T \in Types : ResolveClass(T, NoCtx)

Spec == Init /\ [][Next]_vars

----------------------------------------------------------------------------
(* The same container with has(key) among its calls.                       *)

\* a boolean as a returned value
BoolValue(x) == [type |-> "boolean", id |-> IF x THEN 1 ELSE 0]

\* container.has(key)
Has(key) ==
    /\ Step
    /\ last' = [op |-> "has", key |-> StrKey(key), ctx |-> NoCtx, ok |-> TRUE,
                err |-> NoError, value |-> BoolValue(has(bindings, key)),
                calls |-> <<>>]
    /\ prev' = NoCall
    /\ UNCHANGED <<bindings, instances, nextId, built>>

NextHas ==
    \/ Next
    \/ \E key \in StrKeys : Has(key)

SpecHas == Init /\ [][NextHas]_vars

----------------------------------------------------------------------------
(* Automatic construction: a container with one symbolic key, named like   *)
(* class A, and the wider set of classes resolved by type reference.       *)

\* the symbolic key "A"; the context key "b" is registered, "c" is only
\* asked for
AutoKeys == {"A"}
AutoContextKeys == {"b"}
AutoCtxArgs == {NoCtx, <<"b">>, <<"c">>}
AutoCacheKeys ==
    {StrKey(k) : k \in AutoKeys}
        \cup {StrKey(CompositeKey(k, c)) : k \in AutoKeys, c \in {"b", "c"}}
        \cup {TypeKey(T) : T \in AutoTypes}

InitAuto ==
    /\ bindings = [k \in AutoKeys |-> Unbound]
    /\ instances = <<>>
    /\ nextId = 1
    /\ nops = 0
    /\ last = NoCall
    /\ prev = NoCall
    /\ built = [k \in AutoCacheKeys |-> 0]
    /\ app = NoApp
    /\ marker = NoMarker
    /\ callers = NoCallers

NextAuto ==
    \/ \E key \in AutoKeys, resolver \in AutoResolvers : Singleton(key, resolver)
    \/ \E key \in AutoKeys, contextKey \in AutoContextKeys,
          resolver \in AutoResolvers, singleton \in BOOLEAN :
           Context(key, contextKey, resolver, singleton)
    \/ \E key \in AutoKeys, ctxArg \in AutoCtxArgs : Resolve(key, ctxArg)
    \/ \E T \in AutoTypes : ResolveClass(T, NoCtx)

SpecAuto == InitAuto /\ [][NextAuto]_vars

----------------------------------------------------------------------------
(* App.boot(): the providers file, the provider list and the two loops of  *)
(* loadServiceProviders. boot() runs in turns separated by its awaits; the *)
(* two loops contain no await and run within one turn, so the rest of an   *)
(* asynchronous register() can only run once that turn has ended.          *)

\* entries exported by the providers file
MaxProviders == 3

\* what app/bootstrap/providers.js is: absent, a module whose default export
\* is no array, or a module exporting an array
ProviderFiles == {"missing", "notArray", "ok"}

\* entries of the exported array:
\*   sync     a ServiceProvider subclass whose register() returns when done
\*   async    a ServiceProvider subclass whose register() awaits before it is done
\*   invalid  something that is not a ServiceProvider subclass
ProviderKinds == {"sync", "async", "invalid"}
ProviderLists == UNION {[1..n -> ProviderKinds] : n \in 0..MaxProviders}

Event(ev, p) == [ev |-> ev, p |-> p]

InitApp ==
    /\ bindings = [k \in {"config"} |-> Unbound]
    /\ instances = <<>>
    /\ nextId = 1
    /\ nops = 0
    /\ last = NoCall
    /\ prev = NoCall
    /\ built = [k \in {StrKey("config")} |-> 0]
    /\ \E file \in ProviderFiles :
         \E entries \in (IF file = "ok" THEN ProviderLists ELSE {<<>>}) :
            app = [pc |-> "idle", file |-> file, entries |-> entries,
                   providers |-> <<"config">>, i |-> 1, instantiated |-> <<>>,
                   pending |-> {}, log |-> <<>>, error |-> "none",
                   logged |-> FALSE]
    /\ marker = NoMarker
    /\ callers = NoCallers

\* boot() up to the dynamic import (App.ts 26-38)
AppBoot ==
    /\ app.pc = "idle"
    /\ app' = IF app.file = "missing"
              THEN [app EXCEPT !.pc = "failed", !.error = "ProvidersFileNotFound"]
              ELSE [app EXCEPT !.pc = "import"]
    /\ UNCHANGED <<bindings, instances, nextId, nops, last, prev, built, marker, callers>>

\* boot() after the import: the array check and the provider list (39-46)
AppImport ==
    /\ app.pc = "import"
    /\ app' = IF app.file = "notArray"
              THEN [app EXCEPT !.pc = "failed", !.error = "InvalidProvidersFile",
                               !.logged = TRUE]
              ELSE [app EXCEPT !.pc = "register", !.i = 1,
                               !.providers = @ \o app.entries]
    /\ UNCHANGED <<bindings, instances, nextId, nops, last, prev, built, marker, callers>>

\* a first loop that passes over an entry that is no provider
AppRegister_SkipsInvalid ==
    /\ app.pc = "register"
    /\ LET p == app.i
           kind == app.providers[p]
           more == p < Len(app.providers)
           valid == kind # "invalid"
       IN  /\ app' = [app EXCEPT
                         !.pc = IF more THEN "register" ELSE "boot",
                         !.i = IF more THEN p + 1 ELSE 1,
                         !.instantiated = IF valid THEN Append(@, p) ELSE @,
                         !.pending = IF kind = "async" THEN @ \cup {p} ELSE @,
                         !.log = IF ~valid THEN @
                                 ELSE @ \o <<Event("new", p), Event("register", p)>>
                                        \o (IF kind = "async" THEN <<>>
                                            ELSE <<Event("registered", p)>>)]
           /\ bindings' = IF kind = "config"
                          THEN singletonBind(bindings, "config", "vObj")
                          ELSE bindings
    /\ UNCHANGED <<instances, nextId, nops, last, prev, built, marker, callers>>

\* one round of the first loop of loadServiceProviders (64-72); the throw
\* leaves boot() through its catch (52-55)
AppRegister ==
    /\ app.pc = "register"
    /\ LET p == app.i
           kind == app.providers[p]
           more == p < Len(app.providers)
       IN  IF kind = "invalid"
           THEN /\ app' = [app EXCEPT !.pc = "failed", !.error = "InvalidProvider",
                                      !.logged = TRUE]
                /\ UNCHANGED bindings
           ELSE /\ app' = [app EXCEPT
                              !.pc = IF more THEN "register" ELSE "boot",
                              !.i = IF more THEN p + 1 ELSE 1,
                              !.instantiated = Append(@, p),
                              !.pending = IF kind = "async" THEN @ \cup {p} ELSE @,
                              !.log = @ \o <<Event("new", p), Event("register", p)>>
                                        \o (IF kind = "async" THEN <<>>
                                            ELSE <<Event("registered", p)>>)]
                /\ bindings' = IF kind = "config"
                               THEN singletonBind(bindings, "config", "vObj")
                               ELSE bindings
    /\ UNCHANGED <<instances, nextId, nops, last, prev, built, marker, callers>>

\* a second loop that walks the instantiated providers backwards
AppBootProvider_Backwards ==
    /\ app.pc = "boot"
    /\ LET more == app.i < Len(app.instantiated)
           p == app.instantiated[Len(app.instantiated) + 1 - app.i]
       IN  app' = [app EXCEPT !.pc = IF more THEN "boot" ELSE "done",
                              !.i = IF more THEN @ + 1 ELSE 1,
                              !.log = Append(@, Event("boot", p))]
    /\ UNCHANGED <<bindings, instances, nextId, nops, last, prev, built, marker, callers>>

\* one round of the second loop of loadServiceProviders (75-79)
AppBootProvider ==
    /\ app.pc = "boot"
    /\ LET more == app.i < Len(app.instantiated)
       IN  app' = [app EXCEPT !.pc = IF more THEN "boot" ELSE "done",
                              !.i = IF more THEN @ + 1 ELSE 1,
                              !.log = Append(@, Event("boot", app.instantiated[app.i]))]
    /\ UNCHANGED <<bindings, instances, nextId, nops, last, prev, built, marker, callers>>

\* the rest of an asynchronous register() runs, in a later turn
AppRegisterSettles(p) ==
    /\ app.pc \in {"done", "failed"}
    /\ p \in app.pending
    /\ app' = [app EXCEPT !.pending = @ \ {p},
                          !.log = Append(@, Event("registered", p))]
    /\ UNCHANGED <<bindings, instances, nextId, nops, last, prev, built, marker, callers>>

\* application code asks the App's container for the configuration, in any
\* turn outside the two loops
AppResolveConfig ==
    /\ app.pc \notin {"register", "boot"}
    /\ Resolve("config", NoCtx)

NextApp ==
    \/ AppBoot
    \/ AppImport
    \/ AppRegister
    \/ AppBootProvider
    \/ \E p \in 1..(MaxProviders + 1) : AppRegisterSettles(p)
    \/ AppResolveConfig

SpecApp == InitApp /\ [][NextApp]_vars

----------------------------------------------------------------------------
(* The Injectable() marker. Arrays are objects: `arrays` is the heap, an   *)
(* array's identity is its index there, 0 stands for undefined.            *)

\* statements run against the classes in one scenario
MaxMarks == 4

\* constructor parameter lists a class is declared with
ParamLists == {<<>>, <<"A">>, <<"B", "A">>}

\* __dependencies of a class: absent, defined by the marker (not writable,
\* not enumerable, not configurable), or an ordinary property made by an
\* assignment
NoRecord == [kind |-> "none", id |-> 0]
MarkerRecord(id) == [kind |-> "marker", id |-> id]
PlainRecord(id) == [kind |-> "plain", id |-> id]

\* outcome of a statement
Outcome(op, T, ok) == [op |-> op, T |-> T, ok |-> ok]

\* target.__dependencies || [] as instantiate reads it
ReadDependencies(m, T) ==
    IF m.rec[T].kind = "none" THEN <<>> ELSE m.arrays[m.rec[T].id]

\* a marker that attaches an empty list whatever the metadata says
Injectable_IgnoresMetadata(m, T) ==
    [m EXCEPT !.arrays = Append(@, <<>>),
              !.rec[T] = MarkerRecord(Len(m.arrays) + 1),
              !.out = Outcome("mark", T, TRUE)]

\* Injectable()(target): the list is the design:paramtypes metadata, or a new
\* empty array when there is none; Object.defineProperty raises TypeError
\* when the property is already there, not configurable, and the value is
\* another object
Injectable(m, T) ==
    LET fresh == m.meta[T] = 0
        id == IF fresh THEN Len(m.arrays) + 1 ELSE m.meta[T]
    IN  IF m.rec[T].kind = "marker"
        THEN IF m.rec[T].id = id
             THEN [m EXCEPT !.out = Outcome("mark", T, TRUE)]
             ELSE [m EXCEPT !.out = Outcome("mark", T, FALSE)]
        ELSE [m EXCEPT !.arrays = IF fresh THEN Append(@, <<>>) ELSE @,
                       !.rec[T] = MarkerRecord(id),
                       !.out = Outcome("mark", T, TRUE)]

\* an assignment that goes through whatever the property is
assign_Writable(m, T, list) ==
    [m EXCEPT !.arrays = Append(@, list),
              !.rec[T] = PlainRecord(Len(m.arrays) + 1),
              !.out = Outcome("assign", T, TRUE)]

\* target.__dependencies = [...] in strict code: TypeError when the property
\* is not writable
assign(m, T, list) ==
    IF m.rec[T].kind = "marker"
    THEN [m EXCEPT !.out = Outcome("assign", T, FALSE)]
    ELSE [m EXCEPT !.arrays = Append(@, list),
                   !.rec[T] = PlainRecord(Len(m.arrays) + 1),
                   !.out = Outcome("assign", T, TRUE)]

InitMark ==
    /\ bindings = [k \in StrKeys |-> Unbound]
    /\ instances = <<>>
    /\ nextId = 1
    /\ nops = 0
    /\ last = NoCall
    /\ prev = NoCall
    /\ built = [k \in CacheKeys |-> 0]
    /\ app = NoApp
    /\ marker = [n |-> 0,
                 meta |-> [T \in Types |-> 0],
                 declared |-> [T \in Types |-> <<>>],
                 rec |-> [T \in Types |-> NoRecord],
                 arrays |-> <<>>,
                 out |-> Outcome("none", "", TRUE)]
    /\ callers = NoCallers

\* a statement leaves the classes as m; every statement counts
MarkStep(m) ==
    /\ marker' = [m EXCEPT !.n = @ + 1]
    /\ UNCHANGED <<bindings, instances, nextId, nops, last, prev, built, app,
                   callers>>

\* the design:paramtypes metadata of class T is set to a new array holding
\* its constructor's parameter types
Declare(T, list) ==
    /\ marker.n < MaxMarks
    /\ MarkStep([marker EXCEPT !.arrays = Append(@, list),
                               !.meta[T] = Len(marker.arrays) + 1,
                               !.declared[T] = list,
                               !.out = Outcome("declare", T, TRUE)])

\* Injectable()(T)
Mark(T) ==
    /\ marker.n < MaxMarks
    /\ MarkStep(Injectable(marker, T))

\* T.__dependencies = list
Assign(T, list) ==
    /\ marker.n < MaxMarks
    /\ MarkStep(assign(marker, T, list))

\* T.__dependencies.push(x): the array is not frozen
Push(T, x) ==
    /\ marker.n < MaxMarks
    /\ marker.rec[T].kind # "none"
    /\ Len(ReadDependencies(marker, T)) < 3
    /\ MarkStep([marker EXCEPT !.arrays[marker.rec[T].id] = Append(@, x),
                               !.out = Outcome("push", T, TRUE)])

NextMark ==
    \/ \E T \in Types, list \in ParamLists : Declare(T, list)
    \/ \E T \in Types : Mark(T)
    \/ \E T \in Types : Assign(T, <<"B">>)
    \/ \E T \in Types : Push(T, "B")

SpecMark == InitMark /\ [][NextMark]_vars

----------------------------------------------------------------------------
(* resolve of a plain key taken in two steps, the cache check (74-85) and  *)
(* the invocation with the cache write (87-91), by two callers that are    *)
(* not synchronised. Within one JavaScript thread a second resolve gets    *)
(* between the two steps of the first only when it is made from inside the *)
(* factory the first one invokes.                                          *)

Callers == {1, 2}

\* a caller outside resolve
Idle == [pc |-> "idle", key |-> "", binding |-> Unbound, ok |-> TRUE,
         value |-> Undefined, invoked |-> FALSE, wrote |-> 0]

InitRace ==
    /\ bindings = [k \in StrKeys |-> Unbound]
    /\ instances = <<>>
    /\ nextId = 1
    /\ nops = 0
    /\ last = NoCall
    /\ prev = NoCall
    /\ built = [k \in CacheKeys |-> 0]
    /\ app = NoApp
    /\ marker = NoMarker
    /\ callers = [c \in Callers |-> Idle]

\* resolve(key), first step: the binding lookup and the cache check
RaceCheck(c, key) ==
    /\ callers[c].pc # "checked"
    /\ nops < MaxOps
    /\ nops' = nops + 1
    /\ callers' =
          [callers EXCEPT ![c] =
              IF bindings[key] = Unbound
              THEN [Idle EXCEPT !.pc = "done", !.key = key, !.ok = FALSE]
              ELSE IF MapHas(instances, StrKey(key))
              THEN [Idle EXCEPT !.pc = "done", !.key = key,
                                !.binding = bindings[key],
                                !.value = MapGet(instances, StrKey(key))]
              ELSE [Idle EXCEPT !.pc = "checked", !.key = key,
                                !.binding = bindings[key]]]
    /\ UNCHANGED <<bindings, instances, nextId, last, prev, built, app, marker>>

\* resolve(key), second step: the resolver is invoked and, for a singleton,
\* the instance written to the cache
RaceBuild(c) ==
    /\ callers[c].pc = "checked"
    /\ LET me == callers[c]
           r == invoke(Working, ResolverOf(me.binding))
           w == IF r.ok /\ SingletonOf(me.binding)
                THEN CacheSet(r.c, StrKey(me.key), r.value)
                ELSE r.c
       IN  /\ instances' = w.instances
           /\ nextId' = w.nextId
           /\ built' = w.built
           /\ callers' =
                 [callers EXCEPT ![c] =
                     [me EXCEPT !.pc = "done", !.ok = r.ok, !.value = r.value,
                                !.invoked = IsFunction(ResolverOf(me.binding)),
                                !.wrote = IF r.ok /\ SingletonOf(me.binding)
                                          THEN w.built[StrKey(me.key)] ELSE 0]]
    /\ UNCHANGED <<bindings, nops, last, prev, app, marker>>

NextRace ==
    \/ \E key \in StrKeys, resolver \in Resolvers : Singleton(key, resolver)
    \/ \E c \in Callers, key \in StrKeys : RaceCheck(c, key)
    \/ \E c \in Callers : RaceBuild(c)

SpecRace == InitRace /\ [][NextRace]_vars

----------------------------------------------------------------------------
(* Properties.                                                             *)

\* a call that is a resolve of a symbolic key, and the binding of that key
SymbolicResolve(call) == call.op = "resolve" /\ call.key.kind = "str"
BindingOf(call) == bindings[call.key.name]

\* the step is a call (every call advances nops)
IsCall == nops' = nops + 1

\* C1: for a key bound via singleton, two consecutive resolve(key) calls
\* both return, and return the identical instance, for a factory and for a
\* pre-built value alike.
C1_SingletonSameInstance ==
    (/\ SymbolicResolve(last)
     /\ prev.op = "resolve"
     /\ IsPlain(BindingOf(last))
     /\ BindingOf(last).singleton)
        => (prev.ok /\ last.ok /\ last.value = prev.value)

\* two consecutive resolves of a key bound to a singleton factory: the first
\* ran the factory, the second returned the same object without running it
C1_Witness ==
    /\ SymbolicResolve(last)
    /\ prev.op = "resolve"
    /\ BindingOf(last) = Plain("fNewA", TRUE)
    /\ prev.calls = <<Call("fNewA", <<>>)>>
    /\ last.calls = <<>>
    /\ last.value = prev.value
    /\ last.value.type = "A"

\* C2: for a key bound via transient(key, factory), every resolve(key)
\* invokes the factory, and two consecutive resolve(key) calls return
\* distinct instances.
C2_TransientFresh ==
    (/\ SymbolicResolve(last)
     /\ IsPlain(BindingOf(last))
     /\ ~BindingOf(last).singleton
     /\ IsFunction(BindingOf(last).resolver))
        => /\ last.ok
           /\ last.calls # <<>>
           /\ prev.op = "resolve" => (prev.calls # <<>> /\ last.value # prev.value)

\* C3: for a key holding two contextual entries A and B of singleton
\* lifetime (not both the same pre-built value), resolve(key, A) and
\* resolve(key, B) return different instances, and a repeated
\* resolve(key, A) returns the instance the first one returned.
C3_ContextsDifferAndStable ==
    \A k \in StrKeys : \A A \in ContextKeys, B \in ContextKeys :
        (/\ A # B
         /\ IsGroup(bindings[k])
         /\ bindings[k].entries[A].present /\ bindings[k].entries[A].singleton
         /\ bindings[k].entries[B].present /\ bindings[k].entries[B].singleton
         /\ \/ IsFunction(bindings[k].entries[A].resolver)
            \/ bindings[k].entries[A].resolver # bindings[k].entries[B].resolver)
            => LET rA  == resolveKey(Working, bindings, k, <<A>>)
                   rB  == resolveKey(rA.c, bindings, k, <<B>>)
                   rA2 == resolveKey(rB.c, bindings, k, <<A>>)
               IN  /\ rA.ok /\ rB.ok /\ rA2.ok
                   /\ rA.value # rB.value
                   /\ rA2.value = rA.value

TransientFactory(key, ctxArg) ==
    LET b == bindings[key]
    IN  \/ IsPlain(b) /\ ~b.singleton /\ IsFunction(b.resolver)
        \/ /\ IsGroup(b) /\ Truthy(ctxArg)
           /\ b.entries[ctxArg[1]].present
           /\ ~b.entries[ctxArg[1]].singleton
           /\ IsFunction(b.entries[ctxArg[1]].resolver)

\* C5: a binding whose current lifetime is transient is never served from
\* the cache: each resolve of it invokes its resolver and leaves the cache
\* as it was.
C5_TransientNeverCached ==
    [][(/\ IsCall
        /\ SymbolicResolve(last')
        /\ TransientFactory(last'.key.name, last'.ctx))
           => (last'.ok /\ last'.calls # <<>> /\ instances' = instances)]_vars

\* C6: resolve(key) without a context key, on a key that holds a contextual
\* group, fails with a "context key required" error.
C6_ContextRequired ==
    (/\ SymbolicResolve(last)
     /\ last.ctx = NoCtx
     /\ IsGroup(BindingOf(last)))
        => (~last.ok /\ last.err.kind = "ContextRequired")

\* C7: resolve(key, contextKey) with a (non-empty) context key for which the
\* group of key has no entry fails with "binding not found for key and
\* context", whatever else is bound or cached.
C7_MissingEntryFails ==
    (/\ SymbolicResolve(last)
     /\ Truthy(last.ctx)
     /\ IsGroup(BindingOf(last))
     /\ ~BindingOf(last).entries[last.ctx[1]].present)
        => (/\ ~last.ok
            /\ last.err = Err("ContextBindingNotFound", last.key.name, last.ctx[1], 0))

\* C8: resolve(key) on a symbolic key with no binding fails with an error
\* that names the key, and changes neither the bindings nor the cache.
C8_UnboundFails ==
    [][(/\ IsCall
        /\ SymbolicResolve(last')
        /\ bindings[last'.key.name] = Unbound)
           => (/\ ~last'.ok
               /\ last'.err = Err("BindingNotFound", last'.key.name, "", 0)
               /\ bindings' = bindings
               /\ instances' = instances)]_vars

\* a resolve of an unbound key has failed, in a container that holds a
\* binding and a cached instance
C8_Witness ==
    /\ SymbolicResolve(last)
    /\ BindingOf(last) = Unbound
    /\ ~last.ok
    /\ last.err.kind = "BindingNotFound"
    /\ last.err.key = last.key.name
    /\ instances # <<>>

C10_ClassificationFixed ==
    [][/\ \A k \in StrKeys :
            /\ IsGroup(bindings[k]) => IsGroup(bindings'[k])
            /\ IsPlain(bindings[k]) => IsPlain(bindings'[k])
       /\ (/\ IsCall
           /\ last'.op \in {"singleton", "transient"}
           /\ IsGroup(bindings[last'.key.name])) => ~last'.ok
       /\ (/\ IsCall
           /\ last'.op = "context"
           /\ IsPlain(bindings[last'.key.name])) => ~last'.ok]_vars

\* C11: has(key) returns true exactly when key holds a binding, plain or
\* contextual group, whether or not the key was ever resolved; it runs no
\* resolver or constructor and leaves bindings and cache unchanged.
C11_HasReportsBinding ==
    [][(IsCall /\ last'.op = "has")
           => (/\ last'.ok
               /\ last'.value = BoolValue(\/ IsPlain(bindings[last'.key.name])
                                          \/ IsGroup(bindings[last'.key.name]))
               /\ last'.calls = <<>>
               /\ bindings' = bindings
               /\ instances' = instances
               /\ nextId' = nextId)]_vars

\* has returned true for a key that holds a contextual group and was never
\* resolved
C11_Witness ==
    /\ last.op = "has"
    /\ last.value = BoolValue(TRUE)
    /\ IsGroup(BindingOf(last))
    /\ instances = <<>>

\* C12: the first resolve(T) by type reference constructs T and caches it
\* under the type; every resolve(T) that finds T cached returns that very
\* instance and runs no constructor.
C12_TypeResolvedOnce ==
    [][(IsCall /\ last'.op = "resolve" /\ last'.key.kind = "type")
           => IF MapHas(instances, last'.key)
              THEN /\ last'.ok
                   /\ last'.value = MapGet(instances, last'.key)
                   /\ last'.calls = <<>>
                   /\ instances' = instances
              ELSE last'.ok
                       => /\ last'.value = NewObject(last'.key.name, nextId' - 1)
                          /\ last'.calls[Len(last'.calls)].fn = last'.key.name
                          /\ MapHas(instances', last'.key)
                          /\ MapGet(instances', last'.key) = last'.value]_vars

\* a type resolved twice in a row: the second call returned the instance the
\* first one constructed
C12_Witness ==
    /\ last.op = "resolve" /\ last.key = TypeKey("B")
    /\ prev.op = "resolve" /\ prev.key = TypeKey("B")
    /\ prev.ok /\ Len(prev.calls) = 2
    /\ last.ok /\ last.value = prev.value /\ last.calls = <<>>

\* a resolve by type reference
TypeResolve(call) == call.op = "resolve" /\ call.key.kind = "type"

\* the classes named in the capability record of T
DepSet(T) == {Dependencies(T)[i] : i \in DOMAIN Dependencies(T)}

\* the classes T depends on, directly or through others (acyclic records)
Needs(T) ==
    LET d1 == DepSet(T)
        d2 == UNION {DepSet(U) : U \in d1}
        d3 == UNION {DepSet(U) : U \in d2}
    IN  d1 \cup d2 \cup d3

\* how many constructor calls of class U a call made
Constructed(calls, U) == Cardinality({i \in DOMAIN calls : calls[i].fn = U})

\* C13: resolving a class over an acyclic dependency graph returns; it
\* constructs every needed class that has no cached instance exactly once
\* and no other, each constructor receives instances of its declared
\* dependency types, and all parameters of one type, across the constructors
\* run by the call, receive one and the same instance.
C13_EachDependencyOnce ==
    [][(IsCall /\ TypeResolve(last') /\ last'.key.name \in AcyclicTypes
            /\ ~MapHas(instances, last'.key))
           => LET T == last'.key.name
                  calls == last'.calls
              IN  /\ last'.ok
                  /\ Constructed(calls, T) = 1
                  /\ \A U \in Needs(T) :
                        Constructed(calls, U)
                            = IF HasInstanceOf(instances, U) THEN 0 ELSE 1
                  /\ \A i \in DOMAIN calls : calls[i].fn \in Needs(T) \cup {T}
                  /\ \A i \in DOMAIN calls :
                        /\ Len(calls[i].args) = Len(Dependencies(calls[i].fn))
                        /\ \A p \in DOMAIN calls[i].args :
                              calls[i].args[p].type = Dependencies(calls[i].fn)[p]
                  /\ \A i, j \in DOMAIN calls :
                        \A p \in DOMAIN calls[i].args, q \in DOMAIN calls[j].args :
                            calls[i].args[p].type = calls[j].args[q].type
                                => calls[i].args[p] = calls[j].args[q]]_vars

\* the diamond E [B, F] over A and then the repeated parameter D [A, A],
\* resolved from an empty cache: A was constructed once and shared
C13_Witness ==
    /\ last.op = "resolve" /\ last.key = TypeKey("D") /\ last.ok
    /\ Len(instances) = 5
    /\ instances[4].key = TypeKey("E")
    /\ last.calls = <<Call("D", <<instances[1].value, instances[1].value>>)>>
    /\ instances[1].key = TypeKey("A")

\* C14: resolving by type reference a class on a dependency cycle, a class
\* that depends on itself included, ends with an error for the caller, and
\* the nested resolve calls never run until the call stack is used up.
C14_CycleFailsWithinStack ==
    (TypeResolve(last) /\ last.key.name \in CyclicTypes)
        => (~last.ok /\ last.err.kind # "RangeError")

\* the first position (1-based) of the capability record of T that holds a
\* non-constructible marker
MarkedAt(T) ==
    CHOOSE i \in DOMAIN Dependencies(T) :
        /\ isPrimitive(Dependencies(T)[i])
        /\ \A j \in 1..(i - 1) : ~isPrimitive(Dependencies(T)[j])

\* C15: resolving a class whose capability record holds one of the six
\* non-constructible markers, at any position, fails with the
\* unresolvable-dependency error naming the parameter index, the expected
\* type and the owning class; the owning class is neither constructed nor
\* cached.
C15_MarkerUnresolvable ==
    (TypeResolve(last) /\ last.key.name \in MarkedTypes \cup {"P"})
        => LET T == last.key.name
               i == MarkedAt(T)
           IN  /\ ~last.ok
               /\ last.err = Err("Unresolvable", T, Dependencies(T)[i], i - 1)
               /\ Constructed(last.calls, T) = 0
               /\ ~MapHas(instances, last.key)

\* the constructor call of class T among the calls of one resolve
CallOf(calls, T) == calls[CHOOSE i \in DOMAIN calls : calls[i].fn = T]

\* C16: when T is constructed automatically, a dependency type D of which
\* the cache already holds an instance, under whatever key, receives such a
\* cached instance and no D is constructed; a dependency type with no cached
\* instance is resolved by type reference: constructed once, cached under D
\* and passed on.
C16_CachedInstanceInjected ==
    [][(IsCall /\ TypeResolve(last') /\ last'.ok /\ ~MapHas(instances, last'.key))
           => LET T == last'.key.name
                  args == CallOf(last'.calls, T).args
              IN  \A p \in DOMAIN Dependencies(T) :
                      LET D == Dependencies(T)[p]
                      IN  IF HasInstanceOf(instances, D)
                          THEN /\ \E i \in DOMAIN instances :
                                     /\ instances[i].value = args[p]
                                     /\ InstanceOf(args[p], D)
                               /\ Constructed(last'.calls, D) = 0
                          ELSE /\ Constructed(last'.calls, D) = 1
                               /\ MapHas(instances', TypeKey(D))
                               /\ args[p] = MapGet(instances', TypeKey(D))]_vars

\* B constructed with the A instance cached under the composite key of a
\* contextual singleton
C16_Witness ==
    /\ last.op = "resolve" /\ last.key = TypeKey("B") /\ last.ok
    /\ Len(instances) = 2
    /\ instances[1].key = StrKey(CompositeKey("A", "b"))
    /\ last.calls = <<Call("B", <<instances[1].value>>)>>

\* the key under which a resolve with a symbolic key looks in the cache
EffectiveKey(call) ==
    IF Truthy(call.ctx) /\ IsGroup(BindingOf(call))
    THEN StrKey(CompositeKey(call.key.name, call.ctx[1]))
    ELSE call.key

\* some entry cached under a type reference holds this value
CachedUnderType(m, value) ==
    \E i \in DOMAIN m : m[i].key.kind = "type" /\ m[i].value = value

\* some entry cached under a symbolic or composite key holds this value
CachedUnderName(m, value) ==
    \E i \in DOMAIN m : m[i].key.kind = "str" /\ m[i].value = value

\* resolve(T) returns what is cached under T itself, else an instance that no
\* symbolic or composite key holds
TypeLookupOwnSpace ==
    (IsCall /\ TypeResolve(last') /\ last'.ok)
        => IF MapHas(instances, last'.key)
           THEN last'.value = MapGet(instances, last'.key)
           ELSE ~CachedUnderName(instances, last'.value)

\* C17 (as claimed): resolve(T) never returns an instance cached under a
\* symbolic or composite key, and resolve(name) never returns an instance
\* cached under a type reference.
C17_SpacesNeverCollide ==
    [][/\ TypeLookupOwnSpace
       /\ (IsCall /\ SymbolicResolve(last') /\ last'.ok)
              => ~CachedUnderType(instances, last'.value)]_vars

\* C17 (amended): the two cache lookups never cross. resolve(T) returns what
\* is cached under T itself, else an instance no symbolic or composite key
\* holds; resolve(name) returns what is cached under its own effective key,
\* and when nothing is cached there, whatever the cache holds under type
\* references, it runs the binding's resolver (or, for a contextual group
\* resolved without a context, returns undefined): an instance cached under a
\* type reference comes back only when the resolver itself returns it.
C17_LookupsNeverCross ==
    [][/\ TypeLookupOwnSpace
       /\ (IsCall /\ SymbolicResolve(last') /\ last'.ok)
              => IF MapHas(instances, EffectiveKey(last'))
                 THEN last'.value = MapGet(instances, EffectiveKey(last'))
                 ELSE \/ /\ last'.calls # <<>>
                         /\ last'.calls[1].fn \in AutoResolvers
                         /\ last'.calls[1].args = <<>>
                      \/ /\ IsGroup(BindingOf(last')) /\ ~Truthy(last'.ctx)
                         /\ last'.value = Undefined
                         /\ last'.calls = <<>>]_vars

\* class A cached under the type, then another A under the symbolic key "A":
\* resolve("A") ran its factory although the type-keyed entry existed
C17_Witness ==
    /\ last.op = "resolve" /\ last.key = StrKey("A") /\ last.ok
    /\ Len(instances) = 2
    /\ instances[1].key = TypeKey("A")
    /\ instances[2].key = StrKey("A")
    /\ instances[1].value # instances[2].value
    /\ last.value = instances[2].value
    /\ last.calls = <<Call("fNewA", <<>>)>>

RequestedKey(call) == IF call.key.kind = "type" THEN call.key ELSE EffectiveKey(call)

\* the resolver a resolve with a symbolic key runs when nothing is cached
ResolverToRun(call) ==
    IF Truthy(call.ctx) /\ IsGroup(BindingOf(call))
    THEN BindingOf(call).entries[call.ctx[1]].resolver
    ELSE ResolverOf(BindingOf(call))

\* the error kind a resolve call must end with, "none" when no cause of
\* failure is at hand
ExpectedFailure(call, m) ==
    IF call.key.kind = "type"
    THEN IF MapHas(m, call.key) THEN "none"
         ELSE IF call.key.name \in ThrowingTypes THEN "ConstructorError"
         ELSE IF call.key.name \in MarkedTypes \cup {"P"}
         THEN IF Dependencies(call.key.name)[MarkedAt(call.key.name)] = "undefined"
              THEN "TypeError" ELSE "Unresolvable"
         ELSE "none"
    ELSE IF BindingOf(call) = Unbound THEN "BindingNotFound"
    ELSE IF MapHas(m, EffectiveKey(call)) THEN "none"
    ELSE IF Truthy(call.ctx) /\ IsGroup(BindingOf(call))
            /\ ~BindingOf(call).entries[call.ctx[1]].present
    THEN "ContextBindingNotFound"
    ELSE IF ResolverToRun(call) = "fThrow" THEN "ResolverError"
    ELSE "none"

\* C19: a resolve that meets a cause of failure (unbound key, missing
\* context, unresolvable dependency, throwing resolver or constructor) ends
\* with that error for its caller; a failed resolve adds no cache entry under
\* the requested effective key and runs the throwing resolver or constructor
\* once only; the same resolve made again right after attempts again: it
\* runs the throwing resolver or constructor again and fails the same way.
C19_FailurePropagates ==
    [][(IsCall /\ last'.op = "resolve")
           => /\ ExpectedFailure(last', instances) # "none"
                    => (~last'.ok /\ last'.err.kind = ExpectedFailure(last', instances))
              /\ ~last'.ok
                    => /\ MapHas(instances', RequestedKey(last'))
                              => MapHas(instances, RequestedKey(last'))
                       /\ \A f \in {"fThrow"} \cup ThrowingTypes :
                              Constructed(last'.calls, f) <= 1
              /\ (~last'.ok /\ Repeats(last'.key, last'.ctx) /\ ~last.ok)
                    => /\ last'.err = last.err
                       /\ \A f \in {"fThrow"} \cup ThrowingTypes :
                              Constructed(last'.calls, f) = Constructed(last.calls, f)]_vars

\* a singleton bound to a throwing factory, resolved twice: both calls ran
\* the factory and failed, and nothing is cached under the key
C19_Witness ==
    /\ last.op = "resolve" /\ last.key = StrKey("A") /\ ~last.ok
    /\ last.err.kind = "ResolverError"
    /\ prev.op = "resolve" /\ ~prev.ok
    /\ last.calls = <<Call("fThrow", <<>>)>>
    /\ prev.calls = last.calls
    /\ BindingOf(last) = Plain("fThrow", TRUE)
    /\ ~MapHas(instances, StrKey("A"))

\* the positions in the App's log at which this event stands
Occurrences(ev, p) == {j \in DOMAIN app.log : app.log[j] = Event(ev, p)}

\* C20: during bootstrap, a provider's boot() is invoked only after the
\* register() of every provider in the list has completed, asynchronous
\* register() included.
C20_BootAfterAllRegistered ==
    \A j \in DOMAIN app.log :
        app.log[j].ev = "boot"
            => \A p \in DOMAIN app.providers :
                   \E k \in Occurrences("registered", p) : k < j

\* the position of an event that stands once in the App's log
Pos(ev, p) == CHOOSE j \in Occurrences(ev, p) : TRUE

\* C21: when App.boot() has succeeded, the provider list is the built-in
\* ConfigServiceProvider followed by the entries of the providers file, and
\* every provider of the list was instantiated once, had register() invoked
\* once and boot() invoked once, each of the three in list order.
C21_EachProviderOnceInOrder ==
    app.pc = "done"
        => /\ app.providers = <<"config">> \o app.entries
           /\ Len(app.log) = 3 * Len(app.providers) + Cardinality(
                  {p \in DOMAIN app.providers :
                      Occurrences("registered", p) # {}})
           /\ \A p \in DOMAIN app.providers :
                 /\ \A ev \in {"new", "register", "boot"} :
                       Cardinality(Occurrences(ev, p)) = 1
                 /\ Pos("new", p) < Pos("register", p)
           /\ \A p, q \in DOMAIN app.providers :
                 p < q => \A ev \in {"new", "register", "boot"} :
                              Pos(ev, p) < Pos(ev, q)

\* a boot that succeeded with the built-in provider and two more
C21_Witness ==
    /\ app.pc = "done"
    /\ Len(app.providers) = 3
    /\ app.providers[1] = "config"

\* ConfigServiceProvider.register() has returned
ConfigRegistered == Occurrences("registered", 1) # {}

\* C22: once ConfigServiceProvider.register() has returned, "config" holds
\* one plain singleton binding to the configuration mapping, has("config")
\* is true, and every resolve("config") returns that mapping object itself
\* without invoking anything.
C22_ConfigSingleton ==
    [][/\ ConfigRegistered'
           => /\ has(bindings', "config")
              /\ bindings'["config"] = Plain("vObj", TRUE)
       /\ (ConfigRegistered /\ IsCall /\ last'.op = "resolve"
               /\ last'.key = StrKey("config"))
           => /\ last'.ok
              /\ last'.value = PrebuiltObject
              /\ last'.calls = <<>>]_vars

\* after a completed boot the configuration was resolved twice and came back
\* as the same object, the second time from the cache
C22_Witness ==
    /\ app.pc = "done"
    /\ last.op = "resolve" /\ last.key = StrKey("config") /\ last.ok
    /\ prev.op = "resolve" /\ prev.ok
    /\ last.value = prev.value
    /\ MapHas(instances, StrKey("config"))
    /\ MapGet(instances, StrKey("config")) = PrebuiltObject

\* a statement was run against the classes
IsStatement == marker'.n = marker.n + 1

\* the statement just run is this one
Ran(op, T) == IsStatement /\ marker'.out.op = op /\ marker'.out.T = T

\* the marker has defined __dependencies of T
Marked(T) == marker.rec[T].kind = "marker"

C24_RemarkOverwrites ==
    [][\A T \in Types :
          (Marked(T) /\ Ran("mark", T))
              => /\ marker'.out.ok
                 /\ ReadDependencies(marker', T) = marker.declared[T]]_vars

\* C25: marking a type that is not yet marked succeeds and attaches to the
\* type, as what automatic construction reads, exactly the ordered list of
\* its constructor's parameter types: the empty list for a class declared
\* without parameters, [A] for a constructor taking (A).
C25_RecordIsParameterList ==
    [][\A T \in Types :
          (~Marked(T) /\ Ran("mark", T))
              => /\ marker'.out.ok
                 /\ marker'.rec[T].kind = "marker"
                 /\ ReadDependencies(marker', T) = marker.declared[T]]_vars

\* class A, declared without metadata, and class B with parameters (B, A)
\* have both been marked
C25_Witness ==
    /\ marker.out = Outcome("mark", "B", TRUE)
    /\ marker.meta["A"] = 0
    /\ marker.rec["A"].kind = "marker"
    /\ ReadDependencies(marker, "A") = <<>>
    /\ marker.rec["B"].kind = "marker"
    /\ ReadDependencies(marker, "B") = <<"B", "A">>

\* C26: the composite cache key of a contextual entry (key, contextKey) is
\* distinct from every plain symbolic key, so resolve(key, contextKey) never
\* returns an instance built by another binding: when a plain key bound to a
\* factory is resolved and builds its instance, a resolve of a contextual
\* entry made right after does not return that instance.
C26_CompositeKeyDistinct ==
    \A key \in StrKeys, contextKey \in ContextKeys \ {""}, plain \in StrKeys :
        (/\ IsGroup(bindings[key])
         /\ bindings[key].entries[contextKey].present
         /\ IsPlain(bindings[plain])
         /\ IsFunction(bindings[plain].resolver)
         /\ ~MapHas(instances, StrKey(plain)))
            => LET built1 == resolveKey(Working, bindings, plain, NoCtx)
                   other == resolveKey(built1.c, bindings, key, <<contextKey>>)
               IN  (built1.ok /\ other.ok) => other.value # built1.value

\* C27: every entry installed by context(key, contextKey, resolver) is
\* resolvable under its context key, the empty string included: with nothing
\* cached yet, resolve(key, contextKey) returns the product of that entry's
\* resolver, the pre-built value itself or what the factory constructs.
C27_InstalledEntryResolvable ==
    \A key \in StrKeys, contextKey \in ContextKeys :
        (/\ instances = <<>>
         /\ IsGroup(bindings[key])
         /\ bindings[key].entries[contextKey].present)
            => LET entry == bindings[key].entries[contextKey]
                   r == resolveKey(Working, bindings, key, <<contextKey>>)
               IN  /\ r.ok
                   /\ IF IsFunction(entry.resolver)
                      THEN /\ r.c.calls = <<Call(entry.resolver, <<>>)>>
                           /\ r.value = NewObject("A", nextId)
                      ELSE /\ r.c.calls = <<>>
                           /\ r.value = PrebuiltObject

\* the position of the constructor call of class T among the calls
CallPos(calls, T) == CHOOSE i \in DOMAIN calls : calls[i].fn = T

\* C28: automatic construction never passes a wrong-typed value. Every
\* constructor run by a resolve receives as many arguments as its capability
\* record has entries, argument i being an instance of the record's i-th
\* type; the parameters are resolved in ascending order: of two dependency
\* types both constructed for T, neither needed by the other, the one of the
\* lower parameter is constructed first, and when parameter i holds a marker
\* the parameters before i have been resolved and none after i.
C28_ArgumentsMatchRecord ==
    [][(IsCall /\ last'.op = "resolve")
           => LET calls == last'.calls
              IN  /\ \A i \in DOMAIN calls :
                        calls[i].fn \in AutoTypes
                            => LET deps == Dependencies(calls[i].fn)
                               IN  /\ Len(calls[i].args) = Len(deps)
                                   /\ \A p \in DOMAIN deps :
                                         InstanceOf(calls[i].args[p], deps[p])
                  /\ \A T \in AcyclicTypes :
                        LET deps == Dependencies(T)
                        IN  Constructed(calls, T) = 1
                                => \A p, q \in DOMAIN deps :
                                       (/\ p < q
                                        /\ Constructed(calls, deps[p]) = 1
                                        /\ Constructed(calls, deps[q]) = 1
                                        /\ deps[q] \notin Needs(deps[p]) \cup {deps[p]}
                                        /\ deps[p] \notin Needs(deps[q]))
                                           => CallPos(calls, deps[p]) < CallPos(calls, deps[q])
                  /\ (TypeResolve(last') /\ last'.key.name \in MarkedTypes \cup {"P"})
                        => LET T == last'.key.name
                               deps == Dependencies(T)
                           IN  /\ ~last'.ok
                               /\ \A p \in 1..(MarkedAt(T) - 1) :
                                     HasInstanceOf(instances', deps[p])
                               /\ \A q \in (MarkedAt(T) + 1)..Len(deps) :
                                     /\ Constructed(calls, deps[q]) = 0
                                     /\ HasInstanceOf(instances', deps[q])
                                            => HasInstanceOf(instances, deps[q])]_vars

\* the diamond E [B, F] resolved on an empty cache: A, B(A), F(A), E(B, F)
\* were constructed in this order
C28_Witness ==
    /\ last.op = "resolve" /\ last.key = TypeKey("E") /\ last.ok
    /\ Len(last.calls) = 4
    /\ last.calls[2].fn = "B" /\ last.calls[3].fn = "F"
    /\ last.calls[4].fn = "E"
    /\ last.calls[4].args[1].type = "B" /\ last.calls[4].args[2].type = "F"

\* both callers have resolved this key, and each found the cache empty at
\* its check and invoked the factory of a singleton binding
Raced(key) ==
    \A c \in Callers :
        /\ callers[c].pc = "done"
        /\ callers[c].key = key
        /\ callers[c].ok
        /\ callers[c].invoked
        /\ callers[c].wrote > 0

\* C29: when the resolve calls of two callers on the same uncached singleton
\* key interleave between the cache check and the cache write, each caller
\* invokes the factory, the two hold different instances, the key was built
\* twice, and the cache keeps the instance that was written last.
C29_RaceBuildsTwice ==
    \A key \in StrKeys :
        Raced(key)
            => /\ callers[1].value # callers[2].value
               /\ built[StrKey(key)] = 2
               /\ callers[1].wrote # callers[2].wrote
               /\ \A c \in Callers :
                     callers[c].wrote = 2
                         => MapGet(instances, StrKey(key)) = callers[c].value

\* both callers checked before either wrote; caller 2 wrote last
C29_Witness ==
    /\ Raced("a")
    /\ callers[1].wrote = 1
    /\ callers[2].wrote = 2
    /\ Len(instances) = 1

\* some provider's boot() was invoked
SomeBoot == \E j \in DOMAIN app.log : app.log[j].ev = "boot"

\* the providers file is there, exports an array, and every entry of it is a
\* ServiceProvider subclass
ProvidersWellFormed ==
    /\ app.file = "ok"
    /\ \A j \in DOMAIN app.entries : app.entries[j] # "invalid"

\* C30 (as claimed): when the providers file is missing or exports no array,
\* or an entry is no ServiceProvider subclass, boot() does not succeed and
\* no provider's boot() is invoked; the failure reaches the caller as an
\* error that boot() has logged and thrown again.
C30_BootFailureLoggedAndRethrown ==
    /\ (app.pc = "done" \/ SomeBoot) => ProvidersWellFormed
    /\ app.pc = "failed"
           => /\ app.error # "none"
              /\ ~SomeBoot
              /\ app.logged

\* C30 (amended): when the providers file is missing or exports no array, or
\* an entry is no ServiceProvider subclass, boot() does not succeed and no
\* provider's boot() is invoked; the failure reaches the caller as an error.
\* boot() logs and throws again the errors raised after the file check; the
\* error for a missing file is thrown before that and is not logged.
C30_BootFailureReachesCaller ==
    /\ (app.pc = "done" \/ SomeBoot) => ProvidersWellFormed
    /\ app.pc = "failed"
           => /\ app.error # "none"
              /\ ~SomeBoot
              /\ app.logged = (app.error # "ProvidersFileNotFound")
              /\ app.error = "ProvidersFileNotFound" => app.file = "missing"
              /\ app.error = "InvalidProvidersFile" => app.file = "notArray"
              /\ app.error = "InvalidProvider" => ~ProvidersWellFormed

\* boot() failed on an entry that is no provider after two providers had
\* been registered; none was booted
C30_Witness ==
    /\ app.pc = "failed"
    /\ app.error = "InvalidProvider"
    /\ app.logged
    /\ Len(app.instantiated) = 2
    /\ ~SomeBoot

\* the call of this step installs a plain binding of the given lifetime
\* under key k
Rebinds(op, k, singleton) ==
    /\ last'.op = op
    /\ last'.key = StrKey(k)
    /\ \E resolver \in Resolvers \cup AutoResolvers :
           bindings' = [bindings EXCEPT ![k] = Plain(resolver, singleton)]

\* the call of this step returned what the cache held under k, ran no
\* resolver and left the cache as it was
ServedFromCache(k) ==
    /\ last'.ok
    /\ last'.value = MapGet(instances, k)
    /\ last'.calls = <<>>
    /\ instances' = instances

DependentsOf(D) == {T \in AcyclicTypes : D \in DepSet(T)}

\* the cached instances of class D
CachedInstancesOf(m, D) == {m[i].value : i \in {j \in DOMAIN m : InstanceOf(m[j].value, D)}}

\* key "A" is bound to a singleton factory that makes an A and has not been
\* resolved, and T has not been constructed
BoundUnresolved(T) ==
    /\ bindings["A"] = Plain("fNewA", TRUE)
    /\ ~MapHas(instances, StrKey("A"))
    /\ ~MapHas(instances, TypeKey(T))

\* resolve(T), then resolve("A"): T gets an A built by type reference and
\* cached under the class; the key then gets a second A from its factory
TypeFirst(T) ==
    LET r1 == resolveType(Working, T, MaxStack)
        r2 == resolveKey(r1.c, bindings, "A", NoCtx)
    IN  /\ r1.ok /\ r2.ok
        /\ Constructed(r1.c.calls, "A") = 1
        /\ MapHas(r1.c.instances, TypeKey("A"))
        /\ \A p \in DOMAIN Dependencies(T) :
               CallOf(r1.c.calls, T).args[p] = MapGet(r1.c.instances, TypeKey("A"))
        /\ r2.c.calls = Append(r1.c.calls, Call("fNewA", <<>>))
        /\ InstanceOf(r2.value, "A")
        /\ r2.value # MapGet(r1.c.instances, TypeKey("A"))
        /\ MapGet(r2.c.instances, StrKey("A")) = r2.value

\* resolve("A"), then resolve(T): T gets the instance the key returned and no
\* A is constructed by type reference
KeyFirst(T) ==
    LET r1 == resolveKey(Working, bindings, "A", NoCtx)
        r2 == resolveType(r1.c, T, MaxStack)
    IN  /\ r1.ok /\ r2.ok
        /\ \A p \in DOMAIN Dependencies(T) :
               CallOf(r2.c.calls, T).args[p] = r1.value
        /\ Constructed(r2.c.calls, "A") = 0
        /\ ~MapHas(r2.c.instances, TypeKey("A"))
        /\ CachedInstancesOf(r2.c.instances, "A") = {r1.value}

\* what a resolve of key "A" returned is never the instance cached under
\* class A
KeyInstanceApart ==
    (/\ SymbolicResolve(last) /\ last.ok
     /\ MapHas(instances, TypeKey("A")))
        => last.value # MapGet(instances, TypeKey("A"))

\* C32 (as claimed): with a singleton bound under a symbolic key and not yet
\* resolved, constructing a class that depends on the singleton's class
\* builds a separate instance by type reference, cached under the class,
\* and a later resolve of the key constructs a second, distinct instance;
\* with the key resolved first, that one instance is shared.
C32_BindingsNotConsulted ==
    /\ KeyInstanceApart
    /\ \A T \in DependentsOf("A") :
           BoundUnresolved(T) => (TypeFirst(T) /\ KeyFirst(T))

\* C32 (amended): the same, for a cache that holds no instance of the
\* singleton's class under any key; an instance of that class cached under
\* another key is injected instead and nothing is built by type reference.
C32_OnlyCacheConsulted ==
    /\ KeyInstanceApart
    /\ \A T \in DependentsOf("A") :
           BoundUnresolved(T) =>
               IF ~HasInstanceOf(instances, "A")
               THEN TypeFirst(T) /\ KeyFirst(T)
               ELSE LET r == resolveType(Working, T, MaxStack)
                    IN  /\ r.ok
                        /\ Constructed(r.c.calls, "A") = 0
                        /\ \A p \in DOMAIN Dependencies(T) :
                               CallOf(r.c.calls, T).args[p]
                                   = FirstInstanceOf(instances, "A")

\* key "A" was bound as a singleton factory, B was resolved by type
\* reference, then the key: the cache holds an A under the class, B, and a
\* second A under the key
C32_Witness ==
    /\ bindings["A"] = Plain("fNewA", TRUE)
    /\ SymbolicResolve(last) /\ last.ok
    /\ last.calls = <<Call("fNewA", <<>>)>>
    /\ Len(instances) = 3
    /\ instances[1].key = TypeKey("A")
    /\ instances[2].key = TypeKey("B")
    /\ instances[3].key = StrKey("A")
    /\ instances[3].value = last.value
    /\ instances[1].value # instances[3].value

\* of a set of objects, the one made first (the allocator counts upwards)
MadeFirst(objects) == CHOOSE v \in objects : \A w \in objects : v.id <= w.id

\* the entry at position i is the first one that holds its object (an
\* object can be cached again, later, under a second key)
FirstEntry(i) == \A h \in 1..(i - 1) : instances[h].value # instances[i].value

\* objects enter the cache in the order they were made: of two cached
\* objects, the one made first has its first entry before the other's
CachedInOrderMade ==
    \A i \in DOMAIN instances : \A j \in DOMAIN instances :
        (i < j /\ FirstEntry(i) /\ FirstEntry(j))
            => instances[i].value.id < instances[j].value.id

FailedAtParameter ==
    /\ IsCall
    /\ TypeResolve(last')
    /\ ~last'.ok
    /\ last'.err.kind \in {"Unresolvable", "TypeError"}
    /\ last'.err.key = last'.key.name

\* C34: a failed automatic construction is not rolled back. When resolve(T)
\* fails at parameter i, every dependency constructed for a parameter before
\* i stays cached under its class, nothing that was cached is lost, T's
\* constructor has not run, T is not cached and the binding registry is as
\* it was.
C34_FailureNotRolledBack ==
    [][FailedAtParameter
        => LET T == last'.key.name
               i == last'.err.index
           IN  /\ \A p \in 1..i :
                      LET D == Dependencies(T)[p]
                      IN  ~HasInstanceOf(instances, D)
                              => /\ Constructed(last'.calls, D) = 1
                                 /\ MapHas(instances', TypeKey(D))
                                 /\ InstanceOf(MapGet(instances', TypeKey(D)), D)
                                 /\ built'[TypeKey(D)] = built[TypeKey(D)] + 1
               /\ Len(instances') >= Len(instances)
               /\ SubSeq(instances', 1, Len(instances)) = instances
               /\ Constructed(last'.calls, T) = 0
               /\ ~MapHas(instances', TypeKey(T))
               /\ bindings' = bindings]_vars

\* resolving a class whose record is <<A, String>> on an empty cache failed
\* at parameter 1; the A built for parameter 0 is cached under class A
C34_Witness ==
    /\ last.op = "resolve" /\ last.key = TypeKey(Q("String")) /\ ~last.ok
    /\ last.err = Err("Unresolvable", Q("String"), "String", 1)
    /\ last.calls = <<Call("A", <<>>)>>
    /\ Len(instances) = 1
    /\ instances[1].key = TypeKey("A")
    /\ InstanceOf(instances[1].value, "A")
    /\ ~MapHas(instances, TypeKey(Q("String")))

====
